---- MODULE Spec2Model ----
(***************************************************************************)
(* State-machine model of the etcd client of src/src/client.rs: the token  *)
(* cell (Arc<RwLock<Option<MetadataValue>>>), refresh_token, set_token,    *)
(* execute_with_retries, Client::new and Clone, the facade methods, watch  *)
(* and keep_alive_for.                                                     *)
(* The etcd server and the transport are the environment: every response   *)
(* is an input drawn from a small set, constrained only by what the server *)
(* knows (which tokens it issued and still accepts, whether auth is on).   *)
(***************************************************************************)
EXTENDS Integers, Sequences, FiniteSets, TLC

\* ------------------------------------------------------------------ bounds
NumTasks == 2
MaxTokens == 3
MaxLease == 2
MaxWatchId == 2
MaxEvents == 1

\* ------------------------------------------------------- program constants
\* static MAX_RETRY: i32 = 3;
MAX_RETRY == 3

Tasks == 1..NumTasks
MainTask == 1
TokenIds == 1..MaxTokens
LeaseIds == 1..MaxLease

\* tonic status codes: the two the retry loop recovers from, and two others.
OtherCodes == {"PermissionDenied", "InvalidArgument"}
Codes == {"Unauthenticated", "Unavailable"} \cup OtherCodes

\* Unary operations of the facades (AuthOp, KeyValueOp, LeaseOp, ClusterOp).
AuthMgmtOps == {"auth_status", "auth_enable", "auth_disable",
                "role_add", "role_delete", "role_list"}
KvOps == {"put", "get", "delete", "txn", "compact"}
LeaseUnaryOps == {"grant_lease", "revoke", "time_to_live"}
ClusterOps == {"member_add", "member_remove", "member_update", "member_list"}
UnaryOps == AuthMgmtOps \cup KvOps \cup LeaseUnaryOps \cup ClusterOps

CancelReasons == {"compacted", "permission denied"}

VARIABLES
    cfg_auth,      \* ClientConfig.auth is Some(..)
    cfg_uri_ok,    \* every ClientConfig endpoint is a well-formed URI
    client,        \* outcome of Client::new: constructing / ready / err / panicked
    auth_user,     \* per Client value: its auth_user is Some(..)
    handle,        \* per Client value: the cell its token field (an Arc) points
                   \* to, named by the task that allocated it; 0 without a Client
    token,         \* per cell: 0 is None, n > 0 is Some(token n)
    rlock,         \* per cell: tasks holding a read guard
    wlock,         \* per cell: task holding the write guard, 0 if none
    last_written,  \* history: the token of the latest completed refresh, through
                   \* whichever Client value it ran
    stale,         \* history: values a completed refresh has overwritten
    pc,            \* each task's position
    op,            \* each task's operation in progress
    i,             \* loop variable _i of execute_with_retries
    hist,          \* history: outcome of each attempt of the invocation
    nrefresh,      \* history: authenticate calls issued by the invocation
    refresh_ok,    \* history: refreshes of the invocation that wrote the cell
    refresh_err,   \* history: the error a refresh of the invocation returned
    from_refresh,  \* history: tokens authenticate returned to a refresh_token
    req_md,        \* metadata of the request in flight
    seen_stale,    \* history: `stale` when the task's set_token took the read guard
    t_new,         \* refresh_token's local t: the parsed token awaiting the write
    outbound,      \* messages sent on the task's outbound stream channel
    consumed,      \* messages read from the task's inbound stream
    first_msg,     \* history: the first inbound message of the stream
    arg,           \* keep_alive_for's lease_id argument
    result,        \* what the operation returned to its caller
    after_put,     \* history: the task's previous operation was a put that returned Ok
    store,         \* server: the key the put and delete requests name is present
    toggled,       \* history: "on" / "off" when the server's auth setting was last
                   \* set by an auth_enable / auth_disable of the Client, else "none"
    issued,        \* server: number of tokens issued so far
    valid,         \* server: tokens it still accepts
    auth_enabled   \* server: authentication is enabled

vars == <<cfg_auth, cfg_uri_ok, client, auth_user, handle, token, rlock, wlock,
          last_written, stale,
          pc, op, i, hist, nrefresh, refresh_ok, refresh_err, from_refresh,
          req_md, seen_stale, t_new,
          outbound, consumed, first_msg, arg, result, after_put, store,
          toggled, issued, valid, auth_enabled>>

\* --------------------------------------------------------------- values
NoMd == [authorization |-> 0, hasleader |-> FALSE]
NoMsg == [kind |-> "none", created |-> FALSE, canceled |-> FALSE,
          cancel_reason |-> "", events |-> 0, id |-> 0]
NoResult == [kind |-> "none", err |-> "", detail |-> "", id |-> 0, tx |-> 0]
Ok(n, tx) == [kind |-> "Ok", err |-> "", detail |-> "", id |-> n, tx |-> tx]
Err(e, d) == [kind |-> "Err", err |-> e, detail |-> d, id |-> 0, tx |-> 0]
Panic(d) == [kind |-> "Panic", err |-> "", detail |-> d, id |-> 0, tx |-> 0]
Msg(k, n) == [kind |-> k, created |-> FALSE, canceled |-> FALSE,
              cancel_reason |-> "", events |-> 0, id |-> n]

\* The first messages a server can send on a watch stream.
WatchMsgs ==
    [kind : {"msg"}, created : BOOLEAN, canceled : BOOLEAN,
     cancel_reason : CancelReasons, events : 0..MaxEvents, id : 1..MaxWatchId]

\* Mutant of TryFromToken: the header value is built from another string
\* than the token authenticate returned.
TryFromToken_OtherString(tok) ==
    IF tok.ascii THEN [ok |-> TRUE, value |-> tok.id + 1]
    ELSE [ok |-> FALSE, value |-> 0]

\* MetadataValue::try_from(&token): only visible-ASCII strings are header
\* values. A token string is [id, ascii]; the parsed value is its id.
TryFromToken(tok) ==
    IF tok.ascii THEN [ok |-> TRUE, value |-> tok.id]
    ELSE [ok |-> FALSE, value |-> 0]

\* The server accepts a request carrying authorization t.
ServerAccepts(t) == (~auth_enabled) \/ (t \in valid)

\* What one RPC carrying authorization t can come back with.
ServerOutcomes(t) ==
    {"Unavailable"} \cup OtherCodes
        \cup (IF ServerAccepts(t) THEN {"Ok"} ELSE {"Unauthenticated"})

\* What a request that the server answers with Ok does to the key: a put
\* writes it, a delete removes it, a transaction holds any of these.
KvEffects(o) ==
    CASE o = "put" -> {"put"}
      [] o = "delete" -> {"delete"}
      [] o = "txn" -> {"none", "put", "delete"}
      [] OTHER -> {"none"}

\* The key is present after the request took effect.
StoreAfter(e, st) ==
    IF e = "put" THEN TRUE ELSE IF e = "delete" THEN FALSE ELSE st

\* DeleteResponse.deleted: the number of entries the request removed.
Deleted(e, st) == IF e = "delete" /\ st THEN 1 ELSE 0

\* The server's auth setting after it answered the request with Ok.
AuthAfter(o, en) ==
    IF o = "auth_enable" THEN TRUE
    ELSE IF o = "auth_disable" THEN FALSE
    ELSE en

\* The history of the setting after the server answered the request with Ok.
ToggledAfter(o, tg) ==
    IF o = "auth_enable" THEN "on"
    ELSE IF o = "auth_disable" THEN "off"
    ELSE tg

\* The number the response carries: AuthStatusResponse.enabled (1 for true)
\* for auth_status, DeleteResponse.deleted for the key-value requests.
Reply(o, e, st, en) ==
    IF o = "auth_status" THEN (IF en THEN 1 ELSE 0) ELSE Deleted(e, st)

\* What opening a stream (watch, lease_keep_alive) can come back with: the
\* server answers a stream's requests on its inbound half, so the open itself
\* does not depend on the token.
StreamOutcomes == {"Ok"} \cup Codes

\* Mutant of HasNextIteration: the range written 0..=MAX_RETRY.
HasNextIteration_OffByOne(n) == n <= MAX_RETRY

\* for _i in 1..=MAX_RETRY: there is a next iteration after iteration n.
HasNextIteration(n) == n < MAX_RETRY

\* Mutant of Classify: Unavailable also takes the refresh branch.
Classify_UnavailableRefreshes(code) ==
    IF code \in {"Unauthenticated", "Unavailable"} THEN "refresh" ELSE "return"

\* Mutant of Classify: the Unauthenticated arm is missing, so that status
\* falls into the final else arm.
Classify_UnauthenticatedReturned(code) ==
    IF code = "Unavailable" THEN "continue" ELSE "return"

\* Mutant of Classify: the final else arm continues instead of returning.
Classify_OtherRetried(code) ==
    IF code = "Unauthenticated" THEN "refresh" ELSE "continue"

\* The match on status.code() in execute_with_retries.
Classify(code) ==
    IF code = "Unauthenticated" THEN "refresh"
    ELSE IF code = "Unavailable" THEN "continue"
    ELSE "return"

\* Mutant of UsesRetry: every facade matches on self.auth_user, so a Client
\* without credentials issues every unary call bare.
UsesRetry_EveryFacadeMatches(o, au) == au

\* Mutant of UsesRetry: auth_status always issues the bare call.
UsesRetry_AuthStatusDirect(o, au) ==
    IF o = "auth_status" THEN FALSE
    ELSE IF o \in AuthMgmtOps THEN au ELSE TRUE

\* Mutant of UsesRetry: role_list always issues the bare call.
UsesRetry_RoleListDirect(o, au) ==
    IF o = "role_list" THEN FALSE ELSE TRUE

\* match self.auth_user in the AuthOp methods; the other facades always wrap.
UsesRetry(o, au) ==
    IF o \in AuthMgmtOps THEN au ELSE TRUE

\* Mutant of CellAfterWrite: the cell is filled only while it is empty
\* (get_or_insert instead of a replacement).
CellAfterWrite_KeepsOld(old, new) == IF old = 0 THEN new ELSE old

\* *x = Some(t): the cell after the write of refresh_token.
CellAfterWrite(old, new) == new

\* Mutant of ReadGuardDropped: set_token hands the guard back with the
\* request, so it lives until the call has returned.
ReadGuardDropped_KeptWithRequest(held, p) == held

\* The read guard h goes out of scope at the end of set_token: the readers
\* of the cell after that.
ReadGuardDropped(held, p) == held \ {p}

\* h.to_owned() in set_token: the value read under the read guard.
TokenRead(p) == token[handle[p]]

\* ------------------------------------------------------------------ Init
Init ==
    /\ cfg_auth \in BOOLEAN
    /\ cfg_uri_ok \in BOOLEAN
    /\ client = "constructing"
    /\ auth_user = [p \in Tasks |-> FALSE]
    /\ handle = [p \in Tasks |-> 0]
    /\ token = [c \in Tasks |-> 0]
    /\ rlock = [c \in Tasks |-> {}]
    /\ wlock = [c \in Tasks |-> 0]
    /\ last_written = 0
    /\ stale = {}
    /\ pc = [p \in Tasks |-> IF p = MainTask THEN "new" ELSE "idle"]
    /\ op = [p \in Tasks |-> IF p = MainTask THEN "new" ELSE "none"]
    /\ i = [p \in Tasks |-> 0]
    /\ hist = [p \in Tasks |-> <<>>]
    /\ nrefresh = [p \in Tasks |-> 0]
    /\ refresh_ok = [p \in Tasks |-> 0]
    /\ refresh_err = [p \in Tasks |-> NoResult]
    /\ from_refresh = {}
    /\ req_md = [p \in Tasks |-> NoMd]
    /\ seen_stale = [p \in Tasks |-> {}]
    /\ t_new = [p \in Tasks |-> 0]
    /\ outbound = [p \in Tasks |-> <<>>]
    /\ consumed = [p \in Tasks |-> 0]
    /\ first_msg = [p \in Tasks |-> NoMsg]
    /\ arg = [p \in Tasks |-> 0]
    /\ result = [p \in Tasks |-> NoResult]
    /\ after_put = [p \in Tasks |-> FALSE]
    /\ store \in BOOLEAN
    /\ toggled = "none"
    /\ issued = 0
    /\ valid = {}
    /\ auth_enabled \in BOOLEAN


\* ------------------------------------------------------- control flow
cfgv == <<cfg_auth, cfg_uri_ok>>
serverv == <<store, toggled, issued, valid, auth_enabled>>
cellv == <<handle, token, rlock, wlock, last_written, stale>>
streamv == <<outbound, consumed, first_msg, arg>>

\* The operation returns r to its caller; a panic ends the task instead.
Finish(p, r) ==
    /\ pc' = [pc EXCEPT ![p] = IF r.kind = "Panic" THEN "panicked" ELSE "done"]
    /\ result' = [result EXCEPT ![p] = r]

\* Mutant of NextIteration: the loop is left (break) instead of continued.
NextIteration_GivesUp(p) ==
    /\ Finish(p, Err("ExecuteFailed", ""))
    /\ UNCHANGED <<i, client>>

\* Mutant of NextIteration: `loop` instead of the bounded `for`, the
\* iteration is never counted.
NextIteration_Forever(p) ==
    /\ pc' = [pc EXCEPT ![p] = "set_token"]
    /\ UNCHANGED <<i, result, client>>

\* End of one iteration of `for _i in 1..=MAX_RETRY`: the next iteration, or
\* the Err(Error::ExecuteFailed) after the loop.
NextIteration(p) ==
    IF HasNextIteration(i[p])
    THEN /\ pc' = [pc EXCEPT ![p] = "set_token"]
         /\ i' = [i EXCEPT ![p] = i[p] + 1]
         /\ UNCHANGED <<result, client>>
    ELSE /\ Finish(p, Err("ExecuteFailed", ""))
         /\ UNCHANGED <<i, client>>

\* refresh_token returned Ok(()) to its caller o: Client::new returns
\* Ok(cli), watch goes on to set_token, execute_with_retries ends the
\* iteration.
RefreshReturnsOk(p, o) ==
    CASE o = "new" ->
            /\ client' = "ready"
            /\ Finish(p, Ok(0, 0))
            /\ UNCHANGED i
      [] o = "watch" ->
            /\ pc' = [pc EXCEPT ![p] = "set_token"]
            /\ UNCHANGED <<i, result, client>>
      [] OTHER -> NextIteration(p)

\* Mutant of RefreshReturnsErr: the `?` is missing and the result of
\* refresh_token is dropped, so the loop goes on.
RefreshReturnsErr_Swallowed(p, e) ==
    IF op[p] = "new"
    THEN /\ client' = "panicked"
         /\ Finish(p, Panic("unwrap on Err"))
         /\ UNCHANGED i
    ELSE NextIteration(p)

\* refresh_token returned Err(e): Client::new unwraps it, the others use `?`.
RefreshReturnsErr(p, e) ==
    IF op[p] = "new"
    THEN /\ client' = "panicked"
         /\ Finish(p, Panic("unwrap on Err"))
         /\ UNCHANGED i
    ELSE /\ Finish(p, e)
         /\ UNCHANGED <<i, client>>

\* Mutant of CallRefresh: watch does not refresh and goes straight on to
\* set_token with whatever the cell holds.
CallRefresh_WatchSkips(p, o) ==
    IF auth_user[p] /\ o # "watch"
    THEN /\ pc' = [pc EXCEPT ![p] = "authenticating"]
         /\ nrefresh' = [nrefresh EXCEPT ![p] = nrefresh[p] + 1]
         /\ UNCHANGED <<i, result, client>>
    ELSE /\ RefreshReturnsOk(p, o)
         /\ UNCHANGED nrefresh

\* Mutant of CallRefresh: the `if let Some(..) = &self.auth_user` test is
\* dropped and authenticate is always called.
CallRefresh_AlwaysAuthenticates(p, o) ==
    /\ pc' = [pc EXCEPT ![p] = "authenticating"]
    /\ nrefresh' = [nrefresh EXCEPT ![p] = nrefresh[p] + 1]
    /\ UNCHANGED <<i, result, client>>

\* A call of refresh_token by operation o of a built Client: with credentials
\* the authenticate call is issued, without them it is Ok(()) at once.
CallRefresh(p, o) ==
    IF auth_user[p]
    THEN /\ pc' = [pc EXCEPT ![p] = "authenticating"]
         /\ nrefresh' = [nrefresh EXCEPT ![p] = nrefresh[p] + 1]
         /\ UNCHANGED <<i, result, client>>
    ELSE /\ RefreshReturnsOk(p, o)
         /\ UNCHANGED nrefresh

\* ----------------------------------------------------------- Client::new
\* new_channel(&cfg)?, the struct, and with credentials the first refresh.
ClientNew(p) ==
    /\ pc[p] = "new"
    /\ IF ~cfg_uri_ok
       THEN /\ client' = "err"
            /\ Finish(p, Err("InvalidURI", ""))
            /\ UNCHANGED <<auth_user, handle, nrefresh>>
       ELSE IF cfg_auth
       THEN /\ handle' = [handle EXCEPT ![p] = p]
            /\ auth_user' = [auth_user EXCEPT ![p] = TRUE]
            /\ pc' = [pc EXCEPT ![p] = "authenticating"]
            /\ nrefresh' = [nrefresh EXCEPT ![p] = nrefresh[p] + 1]
            /\ UNCHANGED <<client, result>>
       ELSE /\ handle' = [handle EXCEPT ![p] = p]
            /\ client' = "ready"
            /\ Finish(p, Ok(0, 0))
            /\ UNCHANGED <<auth_user, nrefresh>>
    /\ UNCHANGED <<cfgv, after_put, refresh_err, from_refresh, refresh_ok, token, rlock, wlock, last_written,
                   stale, serverv, streamv, op, i, hist, req_md, seen_stale,
                   t_new>>

\* Mutant of CloneCell: the clone gets a cell of its own (a deep copy of the
\* lock and its contents instead of Arc::clone).
CloneCell_DeepCopy(c, q) == q

\* Arc::clone of the token field: the clone held by task q points to the cell
\* c of the original.
CloneCell(c, q) == c

\* #[derive(Clone)]: task q receives a clone of the Client value of task p.
\* auth_user is cloned by value, token by Arc::clone; the cell the clone
\* points to holds what the original's cell holds.
CloneClient(p, q) ==
    /\ client = "ready"
    /\ handle[p] # 0
    /\ handle[q] = 0
    /\ pc[q] = "idle"
    /\ LET c == CloneCell(handle[p], q)
       IN  /\ handle' = [handle EXCEPT ![q] = c]
           /\ token' = [token EXCEPT ![c] = token[handle[p]]]
    /\ auth_user' = [auth_user EXCEPT ![q] = auth_user[p]]
    /\ UNCHANGED <<cfgv, after_put, refresh_err, from_refresh, refresh_ok, rlock, wlock, last_written, stale,
                   serverv, streamv, client, pc, op, i, hist, nrefresh,
                   req_md, seen_stale, t_new, result>>

\* ---------------------------------------------------------- refresh_token
\* self.authenticate(..).await? returns, then MetadataValue::try_from.
AuthenticateReturn(p) ==
    /\ pc[p] = "authenticating"
    /\ \/ /\ \E code \in Codes :
                /\ RefreshReturnsErr(p, Err("Response", code))
                /\ refresh_err' = [refresh_err EXCEPT ![p] = Err("Response", code)]
          /\ UNCHANGED <<issued, valid, t_new, from_refresh>>
       \/ /\ auth_enabled
          /\ issued < MaxTokens
          /\ \E ascii \in BOOLEAN :
                LET tok == [id |-> issued + 1, ascii |-> ascii]
                    parsed == TryFromToken(tok)
                IN  /\ issued' = issued + 1
                    /\ valid' = valid \cup {tok.id}
                    /\ from_refresh' = from_refresh \cup {tok.id}
                    /\ IF parsed.ok
                       THEN /\ t_new' = [t_new EXCEPT ![p] = parsed.value]
                            /\ pc' = [pc EXCEPT ![p] = "wait_write"]
                            /\ UNCHANGED <<i, result, client, refresh_err>>
                       ELSE /\ RefreshReturnsErr(p, Err("ParseMetadataToken", ""))
                            /\ refresh_err' = [refresh_err EXCEPT ![p] =
                                                 Err("ParseMetadataToken", "")]
                            /\ UNCHANGED t_new
    /\ UNCHANGED <<cfgv, after_put, refresh_ok, cellv, streamv, auth_user, auth_enabled, op, hist,
                   nrefresh, req_md, seen_stale, store, toggled>>

\* self.token.write().await: granted when no guard is out.
WriteAcquire(p) ==
    /\ pc[p] = "wait_write"
    /\ rlock[handle[p]] = {}
    /\ wlock[handle[p]] = 0
    /\ wlock' = [wlock EXCEPT ![handle[p]] = p]
    /\ pc' = [pc EXCEPT ![p] = "writing"]
    /\ UNCHANGED <<cfgv, after_put, refresh_err, from_refresh, refresh_ok, serverv, streamv, client, auth_user, token, rlock,
                   handle, last_written, stale, op, i, hist, nrefresh, req_md, seen_stale, t_new,
                   result>>

\* *x = Some(t); the guard is dropped and refresh_token returns Ok(()).
WriteToken(p) ==
    /\ pc[p] = "writing"
    /\ wlock[handle[p]] = p
    /\ token' = [token EXCEPT ![handle[p]] =
                    CellAfterWrite(token[handle[p]], t_new[p])]
    /\ stale' = stale \cup {token[handle[p]]}
    /\ last_written' = t_new[p]
    /\ wlock' = [wlock EXCEPT ![handle[p]] = 0]
    /\ t_new' = [t_new EXCEPT ![p] = 0]
    /\ refresh_ok' = [refresh_ok EXCEPT ![p] = refresh_ok[p] + 1]
    /\ RefreshReturnsOk(p, op[p])
    /\ UNCHANGED <<cfgv, after_put, refresh_err, from_refresh, serverv, streamv, auth_user, handle, rlock, op,
                   hist, nrefresh, req_md, seen_stale>>

\* -------------------------------------------------------------- set_token
\* token.read().await: granted when no writer holds the cell.
SetTokenAcquire(p) ==
    /\ pc[p] = "set_token"
    /\ wlock[handle[p]] = 0
    /\ rlock' = [rlock EXCEPT ![handle[p]] = rlock[handle[p]] \cup {p}]
    /\ seen_stale' = [seen_stale EXCEPT ![p] = stale]
    /\ pc' = [pc EXCEPT ![p] = "reading"]
    /\ UNCHANGED <<cfgv, after_put, refresh_err, from_refresh, refresh_ok, serverv, streamv, client, auth_user, token, wlock,
                   handle, last_written, stale, op, i, hist, nrefresh, req_md, t_new, result>>

\* The token, if any, goes into the request's metadata; the guard is dropped
\* and the caller issues the call (f(new_req), or watch_client.watch(req)
\* after the hasleader insert).
SetTokenRead(p) ==
    /\ pc[p] = "reading"
    /\ rlock' = [rlock EXCEPT ![handle[p]] =
                    ReadGuardDropped(rlock[handle[p]], p)]
    /\ req_md' = [req_md EXCEPT ![p] =
                    [authorization |-> TokenRead(p),
                     hasleader |-> (op[p] = "watch")]]
    /\ pc' = [pc EXCEPT ![p] = IF op[p] = "watch" THEN "watch_call" ELSE "call"]
    /\ UNCHANGED <<cfgv, after_put, refresh_err, from_refresh, refresh_ok, serverv, streamv, client, auth_user, token, wlock,
                   handle, last_written, stale, op, i, hist, nrefresh, seen_stale, t_new, result>>


\* --------------------------------------------------- execute_with_retries
\* A facade method builds its request and, by UsesRetry, either enters
\* execute_with_retries or issues the bare call on the sub-client.
StartUnary(p, o) ==
    /\ pc[p] = "idle"
    /\ client = "ready"
    /\ handle[p] # 0
    /\ op' = [op EXCEPT ![p] = o]
    /\ IF UsesRetry(o, auth_user[p])
       THEN /\ pc' = [pc EXCEPT ![p] = "set_token"]
            /\ i' = [i EXCEPT ![p] = 1]
       ELSE /\ pc' = [pc EXCEPT ![p] = "direct"]
            /\ UNCHANGED i
    /\ UNCHANGED <<cfgv, after_put, refresh_err, from_refresh, refresh_ok, cellv, serverv, streamv, client, auth_user, hist,
                   nrefresh, req_md, seen_stale, t_new, result>>

\* f(new_req).await returns and the match on it runs.
CallReturn(p) ==
    /\ pc[p] = "call"
    /\ \E out \in ServerOutcomes(req_md[p].authorization) :
          /\ hist' = [hist EXCEPT ![p] = Append(hist[p], out)]
          /\ IF out = "Ok"
             THEN /\ \E e \in KvEffects(op[p]) :
                        /\ store' = StoreAfter(e, store)
                        /\ Finish(p, Ok(Reply(op[p], e, store, auth_enabled), 0))
                  /\ auth_enabled' = AuthAfter(op[p], auth_enabled)
                  /\ toggled' = ToggledAfter(op[p], toggled)
                  /\ UNCHANGED <<i, client, nrefresh>>
             ELSE /\ UNCHANGED <<store, auth_enabled, toggled>>
                  /\ CASE Classify(out) = "refresh" -> CallRefresh(p, op[p])
                        [] Classify(out) = "continue" ->
                              /\ NextIteration(p)
                              /\ UNCHANGED nrefresh
                        [] OTHER ->
                              /\ Finish(p, Err("Response", out))
                              /\ UNCHANGED <<i, client, nrefresh>>
    /\ req_md' = [req_md EXCEPT ![p] = NoMd]
    /\ seen_stale' = [seen_stale EXCEPT ![p] = {}]
    /\ UNCHANGED <<cfgv, after_put, refresh_err, from_refresh, refresh_ok, cellv, issued, valid, streamv,
                   auth_user, op, t_new>>

\* An AuthOp method of a Client without credentials: the bare call, with `?`.
DirectReturn(p) ==
    /\ pc[p] = "direct"
    /\ \E out \in ServerOutcomes(req_md[p].authorization) :
          /\ hist' = [hist EXCEPT ![p] = Append(hist[p], out)]
          /\ IF out = "Ok"
             THEN /\ Finish(p, Ok(Reply(op[p], "none", store, auth_enabled), 0))
                  /\ auth_enabled' = AuthAfter(op[p], auth_enabled)
                  /\ toggled' = ToggledAfter(op[p], toggled)
             ELSE /\ Finish(p, Err("Response", out))
                  /\ UNCHANGED <<auth_enabled, toggled>>
    /\ UNCHANGED <<cfgv, after_put, refresh_err, from_refresh, refresh_ok, cellv, store, issued, valid, streamv,
                   client, auth_user, op, i, nrefresh, req_md, seen_stale,
                   t_new>>

\* AuthOp::authenticate called by the application: the bare call on the
\* auth sub-client, whatever auth_user is; no token is attached.
StartAuthenticate(p) ==
    /\ pc[p] = "idle"
    /\ client = "ready"
    /\ handle[p] # 0
    /\ op' = [op EXCEPT ![p] = "authenticate"]
    /\ req_md' = [req_md EXCEPT ![p] = NoMd]
    /\ pc' = [pc EXCEPT ![p] = "auth_direct"]
    /\ UNCHANGED <<cfgv, after_put, refresh_err, from_refresh, refresh_ok, cellv, serverv, streamv, client, auth_user, i,
                   hist, nrefresh, seen_stale, t_new, result>>

\* self.auth_client.clone().authenticate(req).await? returns: a status, or
\* the response with a token the server has just issued, handed to the caller.
AuthenticateDirectReturn(p) ==
    /\ pc[p] = "auth_direct"
    /\ \/ /\ \E code \in Codes :
                /\ hist' = [hist EXCEPT ![p] = Append(hist[p], code)]
                /\ Finish(p, Err("Response", code))
          /\ UNCHANGED <<issued, valid>>
       \/ /\ auth_enabled
          /\ issued < MaxTokens
          /\ issued' = issued + 1
          /\ valid' = valid \cup {issued + 1}
          /\ hist' = [hist EXCEPT ![p] = Append(hist[p], "Ok")]
          /\ Finish(p, Ok(issued + 1, 0))
    /\ UNCHANGED <<cfgv, after_put, refresh_err, from_refresh, refresh_ok, cellv, streamv, client, auth_user, auth_enabled,
                   op, i, nrefresh, req_md, seen_stale, t_new, store, toggled>>

\* ------------------------------------------------------------------ watch
\* channel(128), tx.send(create request) (the receiver is alive, so the send
\* succeeds), then self.refresh_token().await?.
StartWatch(p) ==
    /\ pc[p] = "idle"
    /\ client = "ready"
    /\ handle[p] # 0
    /\ op' = [op EXCEPT ![p] = "watch"]
    /\ outbound' = [outbound EXCEPT ![p] = <<Msg("create", 0)>>]
    /\ CallRefresh(p, "watch")
    /\ UNCHANGED <<cfgv, after_put, refresh_err, from_refresh, refresh_ok, cellv, serverv, auth_user, hist, req_md, seen_stale,
                   t_new, consumed, first_msg, arg>>

\* self.watch_client.clone().watch(req).await?
WatchCallReturn(p) ==
    /\ pc[p] = "watch_call"
    /\ \E out \in StreamOutcomes :
          /\ hist' = [hist EXCEPT ![p] = Append(hist[p], out)]
          /\ IF out = "Ok"
             THEN /\ pc' = [pc EXCEPT ![p] = "watch_msg"]
                  /\ UNCHANGED result
             ELSE Finish(p, Err("Response", out))
    /\ req_md' = [req_md EXCEPT ![p] = NoMd]
    /\ seen_stale' = [seen_stale EXCEPT ![p] = {}]
    /\ UNCHANGED <<cfgv, after_put, refresh_err, from_refresh, refresh_ok, cellv, serverv, streamv, client, auth_user, op, i,
                   nrefresh, t_new>>

\* Mutant of WatchHandshake: the `!resp.created` test is missing.
WatchHandshake_NoCreatedCheck(m) ==
    IF m.kind = "closed" THEN Err("CreateWatch", "")
    ELSE IF m.canceled THEN Err("WatchEvent", m.cancel_reason)
    ELSE IF m.events # 0 THEN Panic("received created event")
    ELSE Ok(m.id, 0)

\* Mutant of WatchHandshake: the canceled arm reports a fixed text instead
\* of resp.cancel_reason.
WatchHandshake_DropsReason(m) ==
    IF m.kind = "closed" THEN Err("CreateWatch", "")
    ELSE IF ~m.created
    THEN Err("WatchEvent", "should receive created event at first")
    ELSE IF m.canceled THEN Err("WatchEvent", "watch canceled")
    ELSE IF m.events # 0 THEN Panic("received created event")
    ELSE Ok(m.id, 0)

\* The match on the first inbound message of watch.
WatchHandshake(m) ==
    IF m.kind = "closed" THEN Err("CreateWatch", "")
    ELSE IF ~m.created
    THEN Err("WatchEvent", "should receive created event at first")
    ELSE IF m.canceled THEN Err("WatchEvent", m.cancel_reason)
    ELSE IF m.events # 0 THEN Panic("received created event")
    ELSE Ok(m.id, 0)

\* inbound.message().await? returns: a status, the end of the stream, or the
\* first message.
WatchFirstMessage(p) ==
    /\ pc[p] = "watch_msg"
    /\ \/ /\ \E code \in Codes : Finish(p, Err("Response", code))
          /\ first_msg' = [first_msg EXCEPT ![p] = Msg("status", 0)]
          /\ UNCHANGED consumed
       \/ /\ first_msg' = [first_msg EXCEPT ![p] = Msg("closed", 0)]
          /\ Finish(p, WatchHandshake(Msg("closed", 0)))
          /\ UNCHANGED consumed
       \/ \E m \in WatchMsgs :
             LET r == WatchHandshake(m)
             IN  /\ first_msg' = [first_msg EXCEPT ![p] = m]
                 /\ consumed' = [consumed EXCEPT ![p] = consumed[p] + 1]
                 /\ Finish(p, IF r.kind = "Ok" THEN Ok(r.id, p) ELSE r)
    /\ UNCHANGED <<cfgv, after_put, refresh_err, from_refresh, refresh_ok, cellv, serverv, client, auth_user, op, i, hist,
                   nrefresh, req_md, seen_stale, t_new, outbound, arg>>

\* --------------------------------------------------------- keep_alive_for
\* channel(1024), req_tx.send(LeaseKeepAliveRequest { id: lease_id }), then
\* lease_client.lease_keep_alive(req_rx) is issued on the bare stream.
StartKeepAlive(p, l) ==
    /\ pc[p] = "idle"
    /\ client = "ready"
    /\ handle[p] # 0
    /\ op' = [op EXCEPT ![p] = "keep_alive_for"]
    /\ arg' = [arg EXCEPT ![p] = l]
    /\ outbound' = [outbound EXCEPT ![p] = <<Msg("keepalive", l)>>]
    /\ req_md' = [req_md EXCEPT ![p] = NoMd]
    /\ pc' = [pc EXCEPT ![p] = "ka_call"]
    /\ UNCHANGED <<cfgv, after_put, refresh_err, from_refresh, refresh_ok, cellv, serverv, client, auth_user, i, hist, nrefresh,
                   seen_stale, t_new, consumed, first_msg, result>>

\* .lease_keep_alive(req_rx).await?
KeepAliveCallReturn(p) ==
    /\ pc[p] = "ka_call"
    /\ \E out \in StreamOutcomes :
          /\ hist' = [hist EXCEPT ![p] = Append(hist[p], out)]
          /\ IF out = "Ok"
             THEN /\ pc' = [pc EXCEPT ![p] = "ka_msg"]
                  /\ UNCHANGED result
             ELSE Finish(p, Err("Response", out))
    /\ UNCHANGED <<cfgv, after_put, refresh_err, from_refresh, refresh_ok, cellv, serverv, streamv, client, auth_user, op, i,
                   nrefresh, req_md, seen_stale, t_new>>

\* The match on the first response of the keep-alive stream: the handle is
\* built from resp.id.
KeepAliveHandshake(l, m) ==
    IF m.kind = "closed" THEN Err("CreateWatch", "")
    ELSE Ok(m.id, 0)

\* resp_rx.message().await? returns.
KeepAliveFirstMessage(p) ==
    /\ pc[p] = "ka_msg"
    /\ \/ /\ \E code \in Codes : Finish(p, Err("Response", code))
          /\ first_msg' = [first_msg EXCEPT ![p] = Msg("status", 0)]
          /\ UNCHANGED consumed
       \/ /\ first_msg' = [first_msg EXCEPT ![p] = Msg("closed", 0)]
          /\ Finish(p, KeepAliveHandshake(arg[p], Msg("closed", 0)))
          /\ UNCHANGED consumed
       \/ \E n \in LeaseIds :
             LET r == KeepAliveHandshake(arg[p], Msg("msg", n))
             IN  /\ first_msg' = [first_msg EXCEPT ![p] = Msg("msg", n)]
                 /\ consumed' = [consumed EXCEPT ![p] = consumed[p] + 1]
                 /\ Finish(p, IF r.kind = "Ok" THEN Ok(r.id, p) ELSE r)
    /\ UNCHANGED <<cfgv, after_put, refresh_err, from_refresh, refresh_ok, cellv, serverv, client, auth_user, op, i, hist,
                   nrefresh, req_md, seen_stale, t_new, outbound, arg>>

\* The caller takes the result; the task is free for its next operation.
Return(p) ==
    /\ pc[p] = "done"
    /\ pc' = [pc EXCEPT ![p] = "idle"]
    /\ op' = [op EXCEPT ![p] = "none"]
    /\ i' = [i EXCEPT ![p] = 0]
    /\ hist' = [hist EXCEPT ![p] = <<>>]
    /\ nrefresh' = [nrefresh EXCEPT ![p] = 0]
    /\ refresh_ok' = [refresh_ok EXCEPT ![p] = 0]
    /\ refresh_err' = [refresh_err EXCEPT ![p] = NoResult]
    /\ outbound' = [outbound EXCEPT ![p] = <<>>]
    /\ consumed' = [consumed EXCEPT ![p] = 0]
    /\ first_msg' = [first_msg EXCEPT ![p] = NoMsg]
    /\ arg' = [arg EXCEPT ![p] = 0]
    /\ result' = [result EXCEPT ![p] = NoResult]
    /\ after_put' = [after_put EXCEPT ![p] =
                        (op[p] = "put" /\ result[p].kind = "Ok")]
    /\ UNCHANGED <<cfgv, cellv, serverv, client, auth_user, req_md,
                   seen_stale, t_new, from_refresh>>

\* ------------------------------------------------------------ environment
\* The server stops accepting a token (its validity window elapsed).
Expire(t) ==
    /\ t \in valid
    /\ valid' = valid \ {t}
    /\ UNCHANGED <<cfgv, after_put, refresh_err, from_refresh, refresh_ok, cellv, streamv, client, auth_user, pc, op, i, hist,
                   nrefresh, req_md, seen_stale, t_new, result, issued,
                   auth_enabled, store, toggled>>

\* Authentication is switched on or off at the server.
ServerAuthToggle ==
    /\ auth_enabled' = ~auth_enabled
    /\ toggled' = "none"
    /\ UNCHANGED <<cfgv, after_put, refresh_err, from_refresh, refresh_ok, cellv, streamv, client, auth_user, pc, op, i, hist,
                   nrefresh, req_md, seen_stale, t_new, result, issued,
                   valid, store>>

\* --------------------------------------------------------- specifications
\* One caller: the task that builds the Client then uses every operation of
\* it, one at a time.
Next ==
    \/ ClientNew(MainTask)
    \/ AuthenticateReturn(MainTask)
    \/ WriteAcquire(MainTask)
    \/ WriteToken(MainTask)
    \/ SetTokenAcquire(MainTask)
    \/ SetTokenRead(MainTask)
    \/ \E o \in UnaryOps : StartUnary(MainTask, o)
    \/ CallReturn(MainTask)
    \/ DirectReturn(MainTask)
    \/ StartAuthenticate(MainTask)
    \/ AuthenticateDirectReturn(MainTask)
    \/ StartWatch(MainTask)
    \/ WatchCallReturn(MainTask)
    \/ WatchFirstMessage(MainTask)
    \/ \E l \in LeaseIds : StartKeepAlive(MainTask, l)
    \/ KeepAliveCallReturn(MainTask)
    \/ KeepAliveFirstMessage(MainTask)
    \/ Return(MainTask)
    \/ \E t \in TokenIds : Expire(t)
    \/ ServerAuthToggle

Spec == Init /\ [][Next]_vars

\* Concurrent callers: every task holds a clone of the Client and issues
\* unary calls through execute_with_retries while the others do the same.
ConcOps == {"put"}

ConcNext ==
    \/ \E p \in Tasks : ClientNew(p)
    \/ \E p, q \in Tasks : CloneClient(p, q)
    \/ \E p \in Tasks : AuthenticateReturn(p)
    \/ \E p \in Tasks : WriteAcquire(p)
    \/ \E p \in Tasks : WriteToken(p)
    \/ \E p \in Tasks : SetTokenAcquire(p)
    \/ \E p \in Tasks : SetTokenRead(p)
    \/ \E p \in Tasks, o \in ConcOps : StartUnary(p, o)
    \/ \E p \in Tasks : CallReturn(p)
    \/ \E p \in Tasks : Return(p)
    \/ \E t \in TokenIds : Expire(t)
    \/ ServerAuthToggle

ConcSpec == Init /\ [][ConcNext]_vars


\* ================================================================ claims
\* The task is inside execute_with_retries, or has just returned from it.
InRetry(p) == op[p] \in UnaryOps /\ i[p] >= 1

\* Attempts 1..k of the invocation that failed with Unauthenticated.
UnauthUpTo(p, k) ==
    Cardinality({j \in 1..k : hist[p][j] = "Unauthenticated"})

AllUnavailable(p) == \A k \in 1..Len(hist[p]) : hist[p][k] = "Unavailable"

\* C1: whatever the outcomes of its attempts, an invocation of
\* execute_with_retries invokes the wrapped call at most MAX_RETRY (3) times.
C1_AtMostMaxRetryAttempts ==
    \A p \in Tasks :
        op[p] \in UnaryOps => Len(hist[p]) <= MAX_RETRY /\ i[p] <= MAX_RETRY

\* C1 witness: an invocation has returned after its third attempt.
C1_Witness ==
    \E p \in Tasks :
        InRetry(p) /\ pc[p] = "done" /\ Len(hist[p]) = MAX_RETRY

\* C2: an invocation whose attempts all fail with Unavailable issues no
\* authenticate call, is still running until its third attempt has failed,
\* and has then returned Error::ExecuteFailed (not Error::Response).
C2_AllUnavailableExhausts ==
    \A p \in Tasks :
        (InRetry(p) /\ AllUnavailable(p)) =>
            /\ nrefresh[p] = 0
            /\ Len(hist[p]) < MAX_RETRY => pc[p] # "done"
            /\ Len(hist[p]) = MAX_RETRY =>
                  pc[p] = "done" /\ result[p] = Err("ExecuteFailed", "")

\* C2 witness: three Unavailable attempts, then the return.
C2_Witness ==
    \E p \in Tasks :
        /\ InRetry(p)
        /\ pc[p] = "done"
        /\ hist[p] = <<"Unavailable", "Unavailable", "Unavailable">>

\* C3: when an attempt fails with a status other than Unauthenticated and
\* Unavailable, the invocation has returned Error::Response with exactly that
\* status: that attempt is its last one, and the authenticate calls it issued
\* are those of its earlier Unauthenticated attempts only.
C3_OtherStatusReturnsAtOnce ==
    \A p \in Tasks :
        (InRetry(p) /\ Len(hist[p]) >= 1) =>
            LET n == Len(hist[p])
            IN  /\ \A k \in 1..n : hist[p][k] \in OtherCodes => k = n
                /\ hist[p][n] \in OtherCodes =>
                      /\ pc[p] = "done"
                      /\ result[p] = Err("Response", hist[p][n])
                      /\ nrefresh[p] = (IF auth_user[p] THEN UnauthUpTo(p, n) ELSE 0)

\* C3 witness: the first attempt failed with such a status and the call
\* returned it after that one attempt.
C3_Witness ==
    \E p \in Tasks :
        /\ InRetry(p)
        /\ pc[p] = "done"
        /\ Len(hist[p]) = 1
        /\ hist[p][1] \in OtherCodes
        /\ result[p] = Err("Response", hist[p][1])


\* The refresh that follows the Unauthenticated failure of attempt k wrote
\* the cell and returned Ok.
RefreshedAfter(p, k) ==
    /\ hist[p][k] = "Unauthenticated"
    /\ UnauthUpTo(p, k) <= refresh_ok[p]

C5_NoPreRefreshToken ==
    \A p \in Tasks :
        pc[p] \in {"call", "watch_call"} =>
            req_md[p].authorization \notin seen_stale[p]

\* C5 witness: one call is in flight with the token a refresh has since
\* overwritten, and a call started after that refresh carries another token.
C5_Witness ==
    \E p, q \in Tasks :
        /\ p # q
        /\ pc[p] = "call"
        /\ pc[q] = "call"
        /\ req_md[q].authorization \in TokenIds
        /\ req_md[q].authorization \in seen_stale[p]
        /\ req_md[p].authorization \in TokenIds


\* C6 as stated: with credentials configured Client::new performs exactly one
\* refresh, and when that refresh fails it returns Err to its caller and
\* produces no Client.
C6_NewReturnsErrOnRefreshFailure ==
    (op[MainTask] = "new" /\ cfg_uri_ok /\ cfg_auth
        /\ pc[MainTask] \in {"done", "panicked"}) =>
        /\ nrefresh[MainTask] = 1
        /\ \/ client = "ready" /\ result[MainTask].kind = "Ok"
              /\ refresh_ok[MainTask] = 1
           \/ client # "ready" /\ result[MainTask].kind = "Err"
              /\ refresh_ok[MainTask] = 0

\* C7 as stated: watch() returns an error, and no session, when the stream
\* closes before any message, or the first message is marked canceled, is not
\* a created acknowledgement, or carries change events.
C7_WatchHandshakeFails ==
    \A p \in Tasks :
        (op[p] = "watch" /\ first_msg[p].kind \in {"closed", "msg"}) =>
            LET m == first_msg[p]
            IN  ( \/ m.kind = "closed"
                  \/ m.canceled
                  \/ ~m.created
                  \/ m.events > 0 ) => result[p].kind = "Err"

\* C8 as stated: keep_alive_for(L) sends exactly one keep-alive request
\* carrying L, reads exactly one response, returns a handle only when that
\* response reports id L, bound to L, and fails with a creation error when the
\* stream closes first.
C8_KeepAliveHandshake ==
    \A p \in Tasks :
        (op[p] = "keep_alive_for" /\ pc[p] = "done") =>
            /\ outbound[p] = <<Msg("keepalive", arg[p])>>
            /\ first_msg[p].kind = "closed" =>
                  result[p] = Err("CreateWatch", "")
            /\ result[p].kind = "Ok" =>
                  /\ consumed[p] = 1
                  /\ first_msg[p].id = arg[p]
                  /\ result[p].id = arg[p]

\* The calls in flight other than the authenticate bootstrap.
InFlight == {"call", "direct", "watch_call", "ka_call"}

\* C9 as stated: every RPC other than authenticate carries the token the
\* cell holds when the call is issued (none when the cell is empty): the
\* unary attempts, the watch stream call and the lease keep-alive stream
\* call. With one caller the cell does not change while its call is in
\* flight.
C9_EveryCallCarriesToken ==
    \A p \in Tasks :
        pc[p] \in InFlight => req_md[p].authorization = token[handle[p]]

\* C10 as stated: with credentials every unary operation goes through
\* execute_with_retries, so a first attempt that fails with Unavailable or
\* Unauthenticated is followed by another attempt.
C10_Original ==
    \A p \in Tasks :
        (auth_user[p] /\ op[p] \in UnaryOps) =>
            /\ pc[p] # "direct"
            /\ ( /\ pc[p] = "done"
                 /\ hist[p][1] \in {"Unavailable", "Unauthenticated"} )
                    => Len(hist[p]) >= 2

\* C10 amended: with credentials every unary operation goes through
\* execute_with_retries; a first attempt that fails with Unavailable is
\* followed by a second attempt; one that fails with Unauthenticated is
\* followed by a refresh, and by a second attempt when that refresh succeeds;
\* when the refresh fails the operation returns the refresh error after its
\* single attempt.
C10_CredentialedOpsRetry ==
    \A p \in Tasks :
        (auth_user[p] /\ op[p] \in UnaryOps) =>
            /\ InRetry(p)
            /\ pc[p] # "direct"
            /\ Len(hist[p]) >= 1 =>
                  /\ hist[p][1] = "Unavailable" =>
                        /\ i[p] >= 2
                        /\ pc[p] = "done" => Len(hist[p]) >= 2
                  /\ hist[p][1] = "Unauthenticated" =>
                        /\ nrefresh[p] >= 1
                        /\ refresh_ok[p] >= 1 =>
                              /\ i[p] >= 2
                              /\ pc[p] = "done" => Len(hist[p]) >= 2
                        /\ (pc[p] = "done" /\ Len(hist[p]) = 1) =>
                              /\ refresh_ok[p] = 0
                              /\ result[p].err \in {"Response", "ParseMetadataToken"}

\* C10 witness: role_list of a credentialed Client, retried after Unavailable.
C10_Witness ==
    \E p \in Tasks :
        /\ auth_user[p]
        /\ op[p] = "role_list"
        /\ Len(hist[p]) >= 2
        /\ hist[p][1] = "Unavailable"

C12_RefreshNoOpWithoutCredentials ==
    \A p \in Tasks :
        ~auth_user[p] =>
              /\ handle[p] # 0 => token[handle[p]] = 0
              /\ nrefresh[p] = 0
              /\ refresh_ok[p] = 0
              /\ t_new[p] = 0
              /\ pc[p] \notin {"authenticating", "wait_write", "writing"}
              /\ req_md[p].authorization = 0
              /\ result[p].err # "ParseMetadataToken"
              /\ InRetry(p) =>
                    \A k \in 1..Len(hist[p]) :
                        (hist[p][k] = "Unauthenticated" /\ k < MAX_RETRY) =>
                            /\ i[p] > k
                            /\ pc[p] = "done" => Len(hist[p]) > k
              /\ (op[p] = "watch" /\ pc[p] = "done") => Len(hist[p]) = 1

\* C12 witness: a put without credentials failed with Unauthenticated, the
\* no-op refresh returned, and the second attempt is in flight without a
\* token.
C12_Witness ==
    \E p \in Tasks :
        /\ ~auth_user[p]
        /\ op[p] = "put"
        /\ hist[p] = <<"Unauthenticated">>
        /\ pc[p] = "call"
        /\ i[p] = 2
        /\ req_md[p].authorization = 0

\* C13: a delete that follows a successful put of the same key, when the
\* token the Client holds has expired: its first attempt fails with
\* Unauthenticated, and once the refresh has succeeded the second attempt is
\* issued with the new token; when the server answers that attempt the delete
\* has returned Ok after 2 attempts and exactly one refresh, reporting 1
\* deleted entry.
C13_ExpiredTokenMidSession ==
    \A p \in Tasks :
        ( /\ auth_user[p]
          /\ op[p] = "delete"
          /\ after_put[p]
          /\ Len(hist[p]) >= 1
          /\ hist[p][1] = "Unauthenticated"
          /\ refresh_ok[p] >= 1 ) =>
            /\ i[p] >= 2
            /\ (pc[p] = "call" /\ i[p] = 2) =>
                  /\ req_md[p].authorization = token[handle[p]]
                  /\ req_md[p].authorization \in 1..issued
                  /\ req_md[p].authorization \notin stale
            /\ pc[p] = "done" => Len(hist[p]) >= 2
            /\ (Len(hist[p]) >= 2 /\ hist[p][2] = "Ok") =>
                  /\ pc[p] = "done"
                  /\ Len(hist[p]) = 2
                  /\ nrefresh[p] = 1
                  /\ refresh_ok[p] = 1
                  /\ result[p] = Ok(1, 0)
                  /\ ~store

\* C13 witness: the delete after the put returned Ok with 1 deleted entry
\* after an Unauthenticated first attempt and one refresh.
C13_Witness ==
    \E p \in Tasks :
        /\ auth_user[p]
        /\ op[p] = "delete"
        /\ after_put[p]
        /\ pc[p] = "done"
        /\ hist[p] = <<"Unauthenticated", "Ok">>
        /\ nrefresh[p] = 1
        /\ result[p] = Ok(1, 0)

\* C14: every Client value points to one and the same token cell and holds
\* the same credentials; the cell a Client value points to holds the token of
\* the latest refresh completed through any Client value, and that token is
\* what an attempt started afterwards through any other one reads and sends.
C14_ClonesShareCell ==
    \A p, q \in Tasks :
        (handle[p] # 0 /\ handle[q] # 0) =>
            /\ handle[p] = handle[q]
            /\ auth_user[p] = auth_user[q]
            /\ wlock[handle[q]] = 0 => token[handle[q]] = last_written
            /\ pc[q] = "reading" => TokenRead(q) = last_written
            /\ pc[q] = "call" => req_md[q].authorization \notin seen_stale[q]

\* C14 witness: a refresh completed through one Client value, and an attempt
\* of an invocation that never refreshed, made through another one, carries
\* that refresh's token.
C14_Witness ==
    \E p, q \in Tasks :
        /\ p # q
        /\ handle[p] # 0
        /\ handle[q] # 0
        /\ op[p] = "put"
        /\ refresh_ok[p] >= 1
        /\ pc[q] = "call"
        /\ nrefresh[q] = 0
        /\ last_written >= 2
        /\ req_md[q].authorization = last_written

\* C15: on a Client with credentials, while the server's auth setting is the
\* one its last successful auth_disable (auth_enable) left, auth_status
\* reports enabled = false (true). These calls go through
\* execute_with_retries: an attempt refused with Unauthenticated, the token
\* of before the toggle being no longer accepted, is followed by a refresh and,
\* when the refresh succeeds, by a second attempt inside the same invocation;
\* while auth is off no attempt is refused.
C15_AuthToggling ==
    /\ toggled # "none" => auth_enabled = (toggled = "on")
    /\ \A p \in Tasks :
          ( /\ auth_user[p]
            /\ toggled # "none"
            /\ op[p] \in {"auth_status", "auth_enable", "auth_disable"} ) =>
              /\ InRetry(p)
              /\ pc[p] # "direct"
              /\ (op[p] = "auth_status" /\ pc[p] = "done"
                    /\ result[p].kind = "Ok") =>
                    result[p].id = (IF toggled = "on" THEN 1 ELSE 0)
              /\ (pc[p] = "call" /\ toggled = "off") =>
                    "Unauthenticated" \notin ServerOutcomes(req_md[p].authorization)
              /\ (Len(hist[p]) >= 1 /\ hist[p][1] = "Unauthenticated") =>
                    /\ nrefresh[p] >= 1
                    /\ refresh_ok[p] >= 1 =>
                          /\ i[p] >= 2
                          /\ pc[p] = "done" => Len(hist[p]) >= 2
                          /\ (Len(hist[p]) >= 2 /\ hist[p][2] = "Ok") =>
                                pc[p] = "done" /\ result[p].kind = "Ok"

\* C15 witness: after an auth_enable of the Client succeeded, its auth_status
\* was refused once, refreshed, and reported enabled = true.
C15_Witness ==
    \E p \in Tasks :
        /\ auth_user[p]
        /\ toggled = "on"
        /\ op[p] = "auth_status"
        /\ pc[p] = "done"
        /\ hist[p] = <<"Unauthenticated", "Ok">>
        /\ result[p] = Ok(1, 0)

\* C15 second witness case: auth_status after a successful auth_disable
\* reported enabled = false.
C15_WitnessDisabled ==
    \E p \in Tasks :
        /\ auth_user[p]
        /\ toggled = "off"
        /\ op[p] = "auth_status"
        /\ pc[p] = "done"
        /\ result[p] = Ok(0, 0)

\* Every refresh the invocation triggered has succeeded: one per
\* Unauthenticated attempt, a no-op without credentials.
AllRefreshesOk(p) ==
    IF auth_user[p]
    THEN /\ nrefresh[p] = UnauthUpTo(p, Len(hist[p]))
         /\ refresh_ok[p] = nrefresh[p]
    ELSE TRUE

\* C16: execute_with_retries has returned ExecuteFailed exactly when it made
\* MAX_RETRY attempts, each failed with Unauthenticated or Unavailable, and
\* every refresh it triggered, the one after the last attempt included,
\* succeeded; the error carries no status.
C16_ExecuteFailedIff ==
    \A p \in Tasks :
        (InRetry(p) /\ pc[p] = "done") =>
            /\ result[p].err = "ExecuteFailed"
                  <=> ( /\ Len(hist[p]) = MAX_RETRY
                        /\ \A k \in 1..MAX_RETRY :
                              hist[p][k] \in {"Unauthenticated", "Unavailable"}
                        /\ AllRefreshesOk(p) )
            /\ result[p].err = "ExecuteFailed" =>
                  result[p] = Err("ExecuteFailed", "")

\* C16 witness: Unauthenticated, Unavailable, Unauthenticated with both
\* refreshes successful, then ExecuteFailed.
C16_Witness ==
    \E p \in Tasks :
        /\ InRetry(p)
        /\ auth_user[p]
        /\ pc[p] = "done"
        /\ hist[p] = <<"Unauthenticated", "Unavailable", "Unauthenticated">>
        /\ refresh_ok[p] = 2
        /\ result[p] = Err("ExecuteFailed", "")

\* C17: inside execute_with_retries one authenticate call is issued per
\* Unauthenticated attempt and none is repeated; when that refresh fails,
\* with any status (Unavailable included) or with a token that does not
\* parse, the invocation has returned exactly that error right after the
\* Unauthenticated attempt, whatever the number of attempts left.
C17_RefreshErrorReturnedAtOnce ==
    \A p \in Tasks :
        (InRetry(p) /\ auth_user[p]) =>
            /\ nrefresh[p] <= UnauthUpTo(p, Len(hist[p]))
            /\ nrefresh[p] - refresh_ok[p] <= 1
            /\ pc[p] = "authenticating" =>
                  /\ hist[p][Len(hist[p])] = "Unauthenticated"
                  /\ nrefresh[p] = UnauthUpTo(p, Len(hist[p]))
            /\ refresh_err[p] # NoResult =>
                  /\ pc[p] = "done"
                  /\ result[p] = refresh_err[p]
                  /\ hist[p][Len(hist[p])] = "Unauthenticated"
                  /\ nrefresh[p] = UnauthUpTo(p, Len(hist[p]))
                  /\ refresh_ok[p] = nrefresh[p] - 1

\* C17 witness: the refresh after the first attempt failed with Unavailable
\* and the invocation returned that status with two attempts left.
C17_Witness ==
    \E p \in Tasks :
        /\ InRetry(p)
        /\ auth_user[p]
        /\ pc[p] = "done"
        /\ hist[p] = <<"Unauthenticated">>
        /\ nrefresh[p] = 1
        /\ refresh_err[p] = Err("Response", "Unavailable")
        /\ result[p] = Err("Response", "Unavailable")

AllUnauthenticated(p) ==
    \A k \in 1..Len(hist[p]) : hist[p][k] = "Unauthenticated"

\* C18: without credentials, an invocation of execute_with_retries whose
\* attempts all fail with Unauthenticated sends every attempt without a
\* token, issues no authenticate call, is still running until its third
\* attempt has failed, and has then returned Error::ExecuteFailed, which does
\* not carry the Unauthenticated status.
C18_NoCredentialsUnauthenticatedExhausts ==
    \A p \in Tasks :
        (~auth_user[p] /\ InRetry(p) /\ AllUnauthenticated(p)) =>
            /\ nrefresh[p] = 0
            /\ refresh_ok[p] = 0
            /\ pc[p] \in {"set_token", "reading", "call", "done"}
            /\ pc[p] = "call" => req_md[p].authorization = 0
            /\ pc[p] # "done" => i[p] = Len(hist[p]) + 1
            /\ Len(hist[p]) < MAX_RETRY => pc[p] # "done"
            /\ Len(hist[p]) = MAX_RETRY =>
                  /\ pc[p] = "done"
                  /\ result[p] = Err("ExecuteFailed", "")

\* C18 witness: three Unauthenticated attempts of a put without credentials,
\* then ExecuteFailed.
C18_Witness ==
    \E p \in Tasks :
        /\ ~auth_user[p]
        /\ op[p] = "put"
        /\ pc[p] = "done"
        /\ hist[p] = <<"Unauthenticated", "Unauthenticated", "Unauthenticated">>
        /\ result[p] = Err("ExecuteFailed", "")

\* C19: when the first message of the watch stream is a created
\* acknowledgement marked canceled, watch() has returned Error::WatchEvent
\* with the cancel reason of that message; when the stream closed before any
\* message, it has returned Error::CreateWatch.
C19_WatchCanceledOrClosed ==
    \A p \in Tasks :
        op[p] = "watch" =>
            /\ ( /\ first_msg[p].kind = "msg"
                 /\ first_msg[p].created
                 /\ first_msg[p].canceled ) =>
                    /\ pc[p] = "done"
                    /\ result[p] = Err("WatchEvent", first_msg[p].cancel_reason)
            /\ first_msg[p].kind = "closed" =>
                    /\ pc[p] = "done"
                    /\ consumed[p] = 0
                    /\ result[p] = Err("CreateWatch", "")

\* C19 witness: the acknowledgement was created and canceled with reason
\* "compacted", and watch() returned WatchEvent("compacted").
C19_Witness ==
    \E p \in Tasks :
        /\ op[p] = "watch"
        /\ first_msg[p].kind = "msg"
        /\ first_msg[p].created
        /\ first_msg[p].canceled
        /\ first_msg[p].cancel_reason = "compacted"
        /\ result[p] = Err("WatchEvent", "compacted")

\* C20: when watch() has returned Ok, the first inbound message was a
\* created, non-canceled acknowledgement without events, exactly one message
\* was consumed from the inbound stream, and the WatchCanceler holds the watch
\* id of that acknowledgement and the sender of the channel on which the one
\* create request was sent.
C20_WatchSuccess ==
    \A p \in Tasks :
        (op[p] = "watch" /\ result[p].kind = "Ok") =>
            /\ pc[p] = "done"
            /\ first_msg[p].kind = "msg"
            /\ first_msg[p].created
            /\ ~first_msg[p].canceled
            /\ first_msg[p].events = 0
            /\ consumed[p] = 1
            /\ result[p].id = first_msg[p].id
            /\ result[p].tx = p
            /\ outbound[p] = <<Msg("create", 0)>>

\* C20 witness: watch() returned a canceler for watch id 2.
C20_Witness ==
    \E p \in Tasks :
        /\ op[p] = "watch"
        /\ pc[p] = "done"
        /\ result[p] = Ok(2, p)
        /\ first_msg[p].id = 2

\* C21: a watch() of a Client with credentials issues exactly one
\* authenticate call, before anything else; only once that refresh has
\* replaced the cell is the token attached (with hasleader) and the stream
\* call issued. When the refresh fails watch() has returned its error and no
\* stream call was issued. The stream call is issued at most once: a status,
\* Unauthenticated and Unavailable included, is returned as Error::Response.
C21_WatchRefreshesFirst ==
    \A p \in Tasks :
        (op[p] = "watch" /\ auth_user[p]) =>
            /\ nrefresh[p] = 1
            /\ Len(hist[p]) <= 1
            /\ pc[p] \in {"authenticating", "wait_write", "writing"} =>
                  /\ hist[p] = <<>>
                  /\ refresh_ok[p] = 0
            /\ pc[p] \in {"set_token", "reading", "watch_call", "watch_msg"} =>
                  refresh_ok[p] = 1
            /\ pc[p] = "watch_call" =>
                  /\ hist[p] = <<>>
                  /\ req_md[p].authorization = last_written
                  /\ req_md[p].authorization \in 1..issued
                  /\ req_md[p].hasleader
            /\ Len(hist[p]) = 1 => refresh_ok[p] = 1
            /\ refresh_err[p] # NoResult =>
                  /\ pc[p] = "done"
                  /\ result[p] = refresh_err[p]
                  /\ hist[p] = <<>>
                  /\ refresh_ok[p] = 0
            /\ (Len(hist[p]) = 1 /\ hist[p][1] # "Ok") =>
                  /\ pc[p] = "done"
                  /\ result[p] = Err("Response", hist[p][1])

\* C21 witness: the stream call of a watch() with credentials failed with
\* Unavailable after the refresh, and watch() returned that status.
C21_Witness ==
    \E p \in Tasks :
        /\ op[p] = "watch"
        /\ auth_user[p]
        /\ pc[p] = "done"
        /\ refresh_ok[p] = 1
        /\ hist[p] = <<"Unavailable">>
        /\ result[p] = Err("Response", "Unavailable")

\* The task awaits a network call: authenticate, an attempt of a unary call,
\* a bare call, or the opening of a stream.
OnNetwork(p) ==
    pc[p] \in {"authenticating", "call", "direct", "auth_direct",
               "watch_call", "watch_msg", "ka_call", "ka_msg"}

\* C22: a task that awaits a network call holds neither the read nor the
\* write guard of any token cell: the write guard is held only between the
\* parse of the token authenticate returned and the write, the read guard
\* only inside set_token, before the attempt is issued.
C22_NoLockAcrossNetworkCall ==
    \A p, c \in Tasks :
        /\ OnNetwork(p) => (wlock[c] # p /\ p \notin rlock[c])
        /\ wlock[c] = p =>
              /\ pc[p] = "writing"
              /\ t_new[p] \in 1..issued
              /\ rlock[c] = {}
        /\ p \in rlock[c] => (pc[p] = "reading" /\ wlock[c] = 0)

\* C22 witness: one task holds the write guard, its authenticate call having
\* returned, while another task's attempt is in flight without a guard.
C22_Witness ==
    \E p, q \in Tasks :
        /\ p # q
        /\ pc[p] = "writing"
        /\ wlock[handle[p]] = p
        /\ pc[q] = "call"
        /\ q \notin rlock[handle[q]]

\* A step that changes cell c is the write of a refresh_token running on a
\* Client value that points to c, and stores the token that refresh parsed.
WrittenByRefresh(c) ==
    \E p \in Tasks :
        /\ handle[p] = c
        /\ pc[p] = "writing"
        /\ wlock[c] = p
        /\ pc'[p] # "writing"
        /\ token'[c] = t_new[p]
        /\ t_new[p] \in from_refresh

\* C23: every cell holds nothing or a token that authenticate returned to a
\* refresh_token, and every step that changes a cell is the write of a
\* refresh_token: set_token, the attempts, the bare calls, the stream
\* handshakes, and every return with an error leave all cells as they are.
C23_CellWrittenOnlyByRefresh ==
    /\ [](\A c \in Tasks : token[c] \in {0} \cup from_refresh)
    /\ [][\A c \in Tasks : token'[c] # token[c] => WrittenByRefresh(c)]_vars

\* C23 witness: the application obtained a token of its own through
\* authenticate, a watch handshake failed, and the cell still holds the token
\* of the last refresh.
C23_Witness ==
    \E p \in Tasks :
        /\ op[p] = "watch"
        /\ pc[p] = "done"
        /\ result[p].kind = "Err"
        /\ first_msg[p].kind = "msg"
        /\ token[handle[p]] \in from_refresh
        /\ token[handle[p]] = last_written
        /\ issued > Cardinality(from_refresh)

\* Task p takes a step of a refresh_token that ends it with an error: its
\* authenticate call returns a status, or a token that does not parse.
RefreshFails(p) ==
    /\ pc[p] = "authenticating"
    /\ refresh_err'[p] # NoResult

\* Task p takes the step that completes a refresh_token with Ok(()).
RefreshSucceeds(p) == refresh_ok'[p] = refresh_ok[p] + 1

\* C24: a step that ends a refresh_token with an error leaves every cell as
\* it is; a cell changes only in the step that completes a refresh_token
\* successfully, and in that one step, taken under the write guard with no
\* reader on the cell, it goes from its old value to the whole parsed token.
C24_FailedRefreshLeavesCell ==
    [][ /\ \A p \in Tasks :
             /\ RefreshFails(p) => token' = token
             /\ RefreshSucceeds(p) =>
                   /\ wlock[handle[p]] = p
                   /\ rlock[handle[p]] = {}
                   /\ t_new[p] \in 1..issued
                   /\ token'[handle[p]] = t_new[p]
                   /\ wlock'[handle[p]] = 0
        /\ \A c \in Tasks :
             token'[c] # token[c] =>
                \E p \in Tasks : handle[p] = c /\ RefreshSucceeds(p)
      ]_vars

\* C24 witness: a refresh inside an invocation failed on a token that does
\* not parse, and the cell still holds the token of the refresh before it.
C24_Witness ==
    \E p \in Tasks :
        /\ InRetry(p)
        /\ pc[p] = "done"
        /\ refresh_err[p] = Err("ParseMetadataToken", "")
        /\ token[handle[p]] # 0
        /\ token[handle[p]] = last_written
        /\ token[handle[p]] < issued

\* The server answered every attempt of the invocation (Ok, or
\* Unauthenticated for a token it does not accept) and no refresh of the
\* invocation failed.
ServerAnsweredAll(p) ==
    /\ \A k \in 1..Len(hist[p]) : hist[p][k] \in {"Ok", "Unauthenticated"}
    /\ refresh_err[p] = NoResult

\* The first attempt of p's call failed with Unauthenticated, and so did the
\* first attempt of a call another task is running on the same Client.
FailedTogether(p) ==
    /\ hist[p] # <<>>
    /\ hist[p][1] = "Unauthenticated"
    /\ \E q \in Tasks \ {p} :
          /\ handle[q] = handle[p]
          /\ InRetry(q)
          /\ hist[q] # <<>>
          /\ hist[q][1] = "Unauthenticated"

\* C25 as stated: when the refreshes succeed and the server accepts every
\* unexpired token it issued, each of the concurrent calls that failed with
\* Unauthenticated succeeds within its MAX_RETRY attempts: its third attempt,
\* if it comes to it, succeeds, and it returns Ok.
C25_Original ==
    \A p \in Tasks :
        (InRetry(p) /\ auth_user[p] /\ FailedTogether(p) /\ ServerAnsweredAll(p)) =>
            /\ Len(hist[p]) = MAX_RETRY => hist[p][MAX_RETRY] = "Ok"
            /\ pc[p] = "done" => result[p].kind = "Ok"

\* At most one of the tokens the server issued has expired: the stale token
\* of the claim, none of those obtained since.
OnlyStaleExpired == Cardinality((1..issued) \ valid) <= 1

\* C25 amended: when in addition no token other than the stale one has
\* expired, each of the concurrent calls that failed with Unauthenticated
\* issues one authenticate call of its own, whatever the others do, sends its
\* second attempt with a token the server accepts (its own or the one another
\* refresh wrote over it), and returns Ok after that second attempt.
C25_ConvergesUnderConcurrentRefresh ==
    \A p \in Tasks :
        (InRetry(p) /\ auth_user[p] /\ FailedTogether(p) /\ ServerAnsweredAll(p)
            /\ OnlyStaleExpired) =>
            /\ Len(hist[p]) <= 2
            /\ nrefresh[p] = UnauthUpTo(p, Len(hist[p]))
            /\ (pc[p] = "call" /\ i[p] = 2) =>
                  /\ refresh_ok[p] = 1
                  /\ ServerAccepts(req_md[p].authorization)
                  /\ req_md[p].authorization \in from_refresh
            /\ pc[p] = "done" => result[p].kind = "Ok"

\* C25 witness: two concurrent calls both failed with Unauthenticated, each
\* completed a refresh of its own, the token obtained earlier was written
\* over the one obtained later, and both calls returned Ok.
C25_Witness ==
    \E p, q \in Tasks :
        /\ p # q
        /\ pc[p] = "done"
        /\ pc[q] = "done"
        /\ hist[p] = <<"Unauthenticated", "Ok">>
        /\ hist[q] = <<"Unauthenticated", "Ok">>
        /\ refresh_ok[p] = 1
        /\ refresh_ok[q] = 1
        /\ result[p].kind = "Ok"
        /\ result[q].kind = "Ok"
        /\ last_written # 0
        /\ last_written < issued
        /\ OnlyStaleExpired

\* The positions of one iteration of the loop, in program order: set_token
\* (read guard, insert), the wrapped call, then on Unauthenticated
\* refresh_token (authenticate, write guard, store). None of them is a sleep
\* or a timer.
LoopPositions ==
    <<"set_token", "reading", "call", "authenticating", "wait_write", "writing">>

PositionOf(s) == CHOOSE k \in 1..Len(LoopPositions) : LoopPositions[k] = s

\* How far an invocation has got: the iterations it has completed, then its
\* position in the current one; a returned invocation is past everything.
Progress(pcv, iv) ==
    IF pcv = "done"
    THEN MAX_RETRY * Len(LoopPositions) + 1
    ELSE (iv - 1) * Len(LoopPositions) + PositionOf(pcv)

Running(p) == InRetry(p) /\ pc[p] # "done"

\* The next step of the invocation running on task p.
InvocationStep(p) ==
    \/ SetTokenAcquire(p)
    \/ SetTokenRead(p)
    \/ CallReturn(p)
    \/ AuthenticateReturn(p)
    \/ WriteAcquire(p)
    \/ WriteToken(p)

\* At most MAX_RETRY attempts of the wrapped call and at most MAX_RETRY
\* authenticate calls, one per Unauthenticated attempt when credentials are
\* configured and none otherwise; the invocation is at a position of the loop
\* or has returned.
AttemptsAndRefreshesBounded(p) ==
    /\ Len(hist[p]) <= MAX_RETRY
    /\ i[p] <= MAX_RETRY
    /\ nrefresh[p] <= MAX_RETRY
    /\ nrefresh[p] <= UnauthUpTo(p, Len(hist[p]))
    /\ (auth_user[p] /\ pc[p] = "done") => nrefresh[p] = UnauthUpTo(p, Len(hist[p]))
    /\ ~auth_user[p] => nrefresh[p] = 0
    /\ Running(p) => \E k \in 1..Len(LoopPositions) : LoopPositions[k] = pc[p]

\* The third attempt failed with Unauthenticated and the invocation returned.
ReturnedAfterThirdRefresh(p) ==
    /\ InRetry(p)
    /\ auth_user[p]
    /\ pc[p] = "done"
    /\ Len(hist[p]) = MAX_RETRY
    /\ hist[p][MAX_RETRY] = "Unauthenticated"

\* C26 as stated: an invocation issues at most 3 attempts and at most 3
\* authenticate calls, one per Unauthenticated attempt, and the result of the
\* refresh that follows the third attempt is not used: the invocation
\* returns ExecuteFailed whatever that refresh returned.
C26_Original ==
    \A p \in Tasks :
        InRetry(p) =>
            /\ AttemptsAndRefreshesBounded(p)
            /\ ReturnedAfterThirdRefresh(p) => result[p] = Err("ExecuteFailed", "")

\* C26 amended: an invocation issues at most 3 attempts and at most 3
\* authenticate calls, one per Unauthenticated attempt; no attempt follows
\* the refresh made after the third attempt, but its result decides what is
\* returned: its error if it failed, ExecuteFailed otherwise. While the
\* invocation is running its next step can be taken (each RPC returns, the
\* guards are free, nothing is waited for), and every step moves it forward
\* in the bounded order of loop positions, so it returns.
C26_InvocationTerminates ==
    /\ [](\A p \in Tasks :
            InRetry(p) =>
                /\ AttemptsAndRefreshesBounded(p)
                /\ ReturnedAfterThirdRefresh(p) =>
                      /\ nrefresh[p] = refresh_ok[p] =>
                            result[p] = Err("ExecuteFailed", "")
                      /\ nrefresh[p] # refresh_ok[p] =>
                            /\ refresh_err[p] # NoResult
                            /\ result[p] = refresh_err[p]
                /\ Running(p) => ENABLED InvocationStep(p))
    /\ [][\A p \in Tasks :
            (Running(p) /\ <<pc[p], i[p]>>' # <<pc[p], i[p]>>) =>
                /\ InvocationStep(p)
                /\ Progress(pc'[p], i'[p]) > Progress(pc[p], i[p])]_vars

\* C26 witness: three attempts failed with Unauthenticated, three
\* authenticate calls were issued, and the invocation returned the error of
\* the refresh that followed the third attempt.
C26_Witness ==
    \E p \in Tasks :
        /\ ReturnedAfterThirdRefresh(p)
        /\ AllUnauthenticated(p)
        /\ nrefresh[p] = MAX_RETRY
        /\ refresh_ok[p] = MAX_RETRY - 1
        /\ result[p] = refresh_err[p]
        /\ result[p] # Err("ExecuteFailed", "")
        /\ Progress(pc[p], i[p]) = MAX_RETRY * Len(LoopPositions) + 1

====
